---------------------------- MODULE Spec2Model ----------------------------
(***************************************************************************)
(* Model of the application-layer dispatch and stream-reassembly engine of *)
(* the_wire (crate sniffer_parser, module application) and of its Modbus   *)
(* decoders.                                                               *)
(*                                                                         *)
(* Bytes are naturals in 0..255, byte strings are sequences of bytes.      *)
(* Option<T> is a sequence of length 0 (None) or 1 (Some).                 *)
(***************************************************************************)
EXTENDS Naturals, Sequences, FiniteSets

VARIABLES
    mb,             \* a call of one of the Modbus parsers: which, on what, result
    pc,             \* position of the capture worker: "idle", "dispatch", "done"
    seg,            \* the transport segment of the frame being handled
    parsed_packet,  \* the ParsedPacket of the frame being handled
    http_store,     \* ACTIVE_HTTP_PARSERS: flow key -> buffered bytes
    tls_store,      \* ACTIVE_TLS_PARSERS:  flow key -> buffered bytes
    handler,        \* which handler the last dispatch invoked, and its outcome
    appended,       \* history: per directional flow, bytes appended since its
                    \* last clear (one map per stateful protocol)
    ids,            \* history: the ids of the first ParsedPackets created
    worker_http,    \* ACTIVE_HTTP_PARSERS, one instance per thread
    worker_tls,     \* ACTIVE_TLS_PARSERS, one instance per thread
    worker_last     \* the thread that handled the last segment, and the segment

vars == <<mb, pc, seg, parsed_packet, http_store, tls_store, handler, appended,
          ids, worker_http, worker_tls, worker_last>>

(***************************************************************************)
(* Bounds of the model.                                                    *)
(***************************************************************************)
\* longest payload handed to a Modbus parser
MaxPayloadLen == 10
\* most bytes the two reassembly stores hold together
MaxBuffered == 6
\* number of created ParsedPackets whose ids are recorded
MaxRecorded == 3
\* number of capture threads
NumWorkers == 2
\* most bytes the two stores of one thread hold together
MaxWorkerBuffered == 5

\* values tried for the bytes that a Modbus variant reads as function code
FcVals == {0, 1, 127, 128, 255}
\* values tried for every other byte
DataVals == {7, 204}

\* A payload of n bytes.  The bytes a variant reads as function code, byte 1
\* (RTU) and byte 7 (TCP, RTU-over-TCP), are f1 and f2; d gives the others.
PayloadOf(n, d, f1, f2) ==
    [i \in 1..n |-> IF i = 2 THEN f1 ELSE IF i = 8 THEN f2 ELSE d[i]]

(***************************************************************************)
(* Rust slices and integer conversions.                                    *)
(***************************************************************************)
\* payload[lo..hi] is in range (it panics otherwise)
SliceInRange(payload, lo, hi) == lo <= hi /\ hi <= Len(payload)

\* payload[lo..hi], 0-based and half-open
Slice(payload, lo, hi) == SubSeq(payload, lo + 1, hi)

\* u16::from_le_bytes of a two-byte slice
U16FromLeBytes(b) == b[1] + 256 * b[2]

\* u16::from_be_bytes of a two-byte slice
U16FromBeBytes(b) == 256 * b[1] + b[2]

(***************************************************************************)
(* Result<ModbusPacket, ModbusError>                                       *)
(***************************************************************************)
ModbusOk(address, function_code, data, crc) ==
    [kind |-> "Ok", address |-> address, function_code |-> function_code,
     data |-> data, crc |-> crc]

ModbusErr(e) == [kind |-> e]

\* an out-of-range slice index or a failed try_into().unwrap()
ModbusPanic == [kind |-> "Panic"]

(***************************************************************************)
(* impl Parse for ModbusPacket                                             *)
(***************************************************************************)
\* mutant: Modbus-TCP framing, a seven-byte header and no CRC
ModbusPacketParse_TcpFraming(payload) ==
    IF Len(payload) < 8 THEN ModbusErr("InvalidLength")
    ELSE IF payload[8] = 0 \/ payload[8] > 127
         THEN ModbusErr("InvalidFunctionCode")
         ELSE ModbusOk(payload[7], payload[8], Slice(payload, 8, Len(payload)), <<>>)

ModbusPacketParse(payload) ==
    IF Len(payload) < 4 THEN ModbusErr("InvalidLength")
    ELSE LET address == payload[1]
             function_code == payload[2]
         IN  IF function_code = 0 \/ function_code > 127
             THEN ModbusErr("InvalidFunctionCode")
             ELSE LET data_len == Len(payload) - 4
                      n == Len(payload)
                  IN  IF ~SliceInRange(payload, 2, 2 + data_len)
                         \/ ~SliceInRange(payload, n - 2, n)
                         \/ Len(Slice(payload, n - 2, n)) # 2
                      THEN ModbusPanic
                      ELSE ModbusOk(address, function_code,
                                    Slice(payload, 2, 2 + data_len),
                                    <<U16FromLeBytes(Slice(payload, n - 2, n))>>)

\* mutant: the trailing CRC read big-endian
ParseModbusRtu_BeCrc(payload) ==
    IF Len(payload) < 4 THEN ModbusErr("InvalidLength")
    ELSE IF payload[2] = 0 \/ payload[2] > 127
         THEN ModbusErr("InvalidFunctionCode")
         ELSE ModbusOk(payload[1], payload[2],
                       Slice(payload, 2, Len(payload) - 2),
                       <<U16FromBeBytes(Slice(payload, Len(payload) - 2, Len(payload)))>>)

\* mutant: only address and function code required, so that the CRC slice of
\* a two- or three-byte payload is out of range
ParseModbusRtu_MinLen2(payload) ==
    IF Len(payload) < 2 THEN ModbusErr("InvalidLength")
    ELSE IF payload[2] = 0 \/ payload[2] > 127
         THEN ModbusErr("InvalidFunctionCode")
         ELSE IF Len(payload) < 4
              THEN ModbusPanic
              ELSE ModbusOk(payload[1], payload[2],
                            Slice(payload, 2, Len(payload) - 2),
                            <<U16FromLeBytes(Slice(payload, Len(payload) - 2, Len(payload)))>>)

\* mutant: function code 128 accepted (off by one in the upper bound)
ParseModbusRtu_Fc128(payload) ==
    IF Len(payload) < 4 THEN ModbusErr("InvalidLength")
    ELSE IF payload[2] = 0 \/ payload[2] > 128
         THEN ModbusErr("InvalidFunctionCode")
         ELSE ModbusOk(payload[1], payload[2],
                       Slice(payload, 2, Len(payload) - 2),
                       <<U16FromLeBytes(Slice(payload, Len(payload) - 2, Len(payload)))>>)

ParseModbusRtu(payload) ==
    IF Len(payload) < 4 THEN ModbusErr("InvalidLength")
    ELSE LET address == payload[1]
             function_code == payload[2]
         IN  IF function_code = 0 \/ function_code > 127
             THEN ModbusErr("InvalidFunctionCode")
             ELSE LET data_len == Len(payload) - 4
                      n == Len(payload)
                  IN  IF ~SliceInRange(payload, 2, 2 + data_len)
                         \/ ~SliceInRange(payload, n - 2, n)
                         \/ Len(Slice(payload, n - 2, n)) # 2
                      THEN ModbusPanic
                      ELSE ModbusOk(address, function_code,
                                    Slice(payload, 2, 2 + data_len),
                                    <<U16FromLeBytes(Slice(payload, n - 2, n))>>)

\* mutant: the unit id taken from byte 0 and the data from byte 7 on
ParseModbusTcp_Shifted(payload) ==
    IF Len(payload) < 8 THEN ModbusErr("InvalidLength")
    ELSE IF payload[8] = 0 \/ payload[8] > 127
         THEN ModbusErr("InvalidFunctionCode")
         ELSE ModbusOk(payload[1], payload[8],
                       Slice(payload, 7, Len(payload)), <<>>)

ParseModbusTcp(payload) ==
    IF Len(payload) < 8 THEN ModbusErr("InvalidLength")
    ELSE IF ~SliceInRange(payload, 0, 2) \/ ~SliceInRange(payload, 2, 4)
            \/ ~SliceInRange(payload, 4, 6)
         THEN ModbusPanic
         ELSE LET transaction_id == U16FromBeBytes(Slice(payload, 0, 2))
                  protocol_id == U16FromBeBytes(Slice(payload, 2, 4))
                  length == U16FromBeBytes(Slice(payload, 4, 6))
                  unit_id == payload[7]
                  function_code == payload[8]
              IN  IF function_code = 0 \/ function_code > 127
                  THEN ModbusErr("InvalidFunctionCode")
                  ELSE IF ~SliceInRange(payload, 8, Len(payload))
                       THEN ModbusPanic
                       ELSE ModbusOk(unit_id, function_code,
                                     Slice(payload, 8, Len(payload)), <<>>)

\* mutant: seven bytes skipped instead of six
ParseModbusRtuOverTcp_Skip7(payload) ==
    IF Len(payload) < 8 THEN ModbusErr("InvalidLength")
    ELSE ParseModbusRtu(Slice(payload, 7, Len(payload)))

ParseModbusRtuOverTcp(payload) ==
    IF Len(payload) < 8 THEN ModbusErr("InvalidLength")
    ELSE IF ~SliceInRange(payload, 6, Len(payload))
         THEN ModbusPanic
         ELSE ParseModbusRtu(Slice(payload, 6, Len(payload)))


(***************************************************************************)
(* ParsedPacket and SerializablePacket                                     *)
(***************************************************************************)
ParsedPacketNew(id) ==
    [id |-> id,
     link_layer_packet |-> <<>>,
     network_layer_packet |-> <<>>,
     transport_layer_packet |-> <<>>,
     application_layer_packet |-> <<>>]

SetApplicationLayerPacket(pp, application_layer_packet) ==
    [pp EXCEPT !.application_layer_packet = application_layer_packet]

MalformedPacket(reason) == [type |-> "MalformedPacket", reason |-> reason]

\* SerializableModbusPacket::from(&ModbusPacket): the frame's four fields
SerializableModbusPacketFrom(m) ==
    [type |-> "ModbusPacket", address |-> m.address,
     function_code |-> m.function_code, data |-> m.data, crc |-> m.crc]

\* The record as the link, network and transport decoders leave it, before
\* the application layer is looked at.
ParseLowerLayers(id, s) ==
    [ParsedPacketNew(id) EXCEPT
        !.link_layer_packet = <<[type |-> "EthernetPacket"]>>,
        !.network_layer_packet =
            <<[type |-> "Ipv4Packet", source |-> s.source_ip,
               destination |-> s.dest_ip]>>,
        !.transport_layer_packet =
            <<[type |-> s.transport, source_port |-> s.source_port,
               destination_port |-> s.dest_port]>>]

(***************************************************************************)
(* Well-known ports                                                        *)
(***************************************************************************)
HTTP_PORT == 80
TLS_PORT == 443
DNS_PORT == 53
MODBUS_PORT == 502

(***************************************************************************)
(* Reassembly stores: HashMap<((IpAddr, u16), (IpAddr, u16)), Vec<u8>>     *)
(***************************************************************************)
\* mutant: the two endpoints of the key put in a canonical order
FlowKey_Normalised(source_ip, source_port, dest_ip, dest_port) ==
    IF source_port <= dest_port
    THEN <<<<source_ip, source_port>>, <<dest_ip, dest_port>>>>
    ELSE <<<<dest_ip, dest_port>>, <<source_ip, source_port>>>>

FlowKey(source_ip, source_port, dest_ip, dest_port) ==
    <<<<source_ip, source_port>>, <<dest_ip, dest_port>>>>

EmptyStore == [k \in {} |-> <<>>]

StoreAppend(store, key, bytes) ==
    [k \in DOMAIN store \cup {key} |->
        IF k = key
        THEN (IF key \in DOMAIN store THEN store[key] ELSE <<>>) \o bytes
        ELSE store[k]]

StoreSnapshot(store, key) == store[key]

StoreClear(store, key) == [k \in DOMAIN store \ {key} |-> store[k]]

(***************************************************************************)
(* HTTP decoder.  The head of a message (start line, header lines, empty   *)
(* line) is one symbol that says how the body is framed; the symbols after *)
(* it are the body's bytes.                                                *)
(***************************************************************************)
\* head with neither Content-Length nor Transfer-Encoding
HTTP_HEAD_NO_LENGTH == 1
\* head with Transfer-Encoding: chunked
HTTP_HEAD_CHUNKED == 2
\* head with Content-Length: k is HTTP_HEAD_CONTENT_LENGTH + k, k in 0..9
HTTP_HEAD_CONTENT_LENGTH == 10
\* the terminating zero-length chunk
HTTP_LAST_CHUNK == 0

DecodeComplete(record) == [outcome |-> "Complete", record |-> <<record>>]
DecodeIncomplete == [outcome |-> "Incomplete", record |-> <<>>]
DecodeMalformed(reason) ==
    [outcome |-> "Malformed", record |-> <<MalformedPacket(reason)>>]

HttpRecord(http_type, body) ==
    [type |-> IF http_type = "Request" THEN "HttpRequestPacket"
              ELSE "HttpResponsePacket",
     body |-> body]

\* index of the first terminating chunk of body, 0 when there is none
RECURSIVE FirstLastChunk(_, _)
FirstLastChunk(body, i) ==
    IF i > Len(body) THEN 0
    ELSE IF body[i] = HTTP_LAST_CHUNK THEN i
    ELSE FirstLastChunk(body, i + 1)

HttpDecode(buf, http_type) ==
    IF buf = <<>> THEN DecodeIncomplete
    ELSE LET head == buf[1]
             body == Tail(buf)
         IN  IF head = HTTP_HEAD_CHUNKED
             THEN LET e == FirstLastChunk(body, 1)
                  IN  IF e = 0 THEN DecodeIncomplete
                      ELSE DecodeComplete(HttpRecord(http_type, SubSeq(body, 1, e - 1)))
             ELSE IF head >= HTTP_HEAD_CONTENT_LENGTH
                     /\ head <= HTTP_HEAD_CONTENT_LENGTH + 9
             THEN LET n == head - HTTP_HEAD_CONTENT_LENGTH
                  IN  IF Len(body) >= n
                      THEN DecodeComplete(HttpRecord(http_type, SubSeq(body, 1, n)))
                      ELSE DecodeIncomplete
             ELSE IF head = HTTP_HEAD_NO_LENGTH
             THEN DecodeIncomplete
             ELSE DecodeMalformed("start line")

\* best-effort decode at end of stream: the end is a message boundary
HttpDecodeTerminal(buf, http_type) ==
    IF buf # <<>> /\ buf[1] = HTTP_HEAD_NO_LENGTH
    THEN DecodeComplete(HttpRecord(http_type, Tail(buf)))
    ELSE DecodeMalformed("truncated")

(***************************************************************************)
(* TLS decoder: records of a 5-byte header (content type, version, length) *)
(* and length bytes of payload.                                            *)
(***************************************************************************)
TLS_HEADER_LEN == 5
TLS_HANDSHAKE == 22

RECURSIVE TlsRecords(_)
TlsRecords(buf) ==
    IF Len(buf) < TLS_HEADER_LEN THEN <<>>
    ELSE LET length == U16FromBeBytes(SubSeq(buf, 4, 5))
         IN  IF Len(buf) < TLS_HEADER_LEN + length THEN <<>>
             ELSE <<[content_type |-> buf[1],
                     length |-> length,
                     handshake_type |->
                        IF buf[1] = TLS_HANDSHAKE /\ length > 0
                        THEN <<buf[TLS_HEADER_LEN + 1]>> ELSE <<>>]>>
                  \o TlsRecords(SubSeq(buf, TLS_HEADER_LEN + length + 1, Len(buf)))

TlsDecode(buf) ==
    IF TlsRecords(buf) = <<>> THEN DecodeIncomplete
    ELSE DecodeComplete([type |-> "TlsPacket", records |-> TlsRecords(buf)])

(***************************************************************************)
(* DNS decoder: a 12-byte header, then the entries (not modelled).         *)
(***************************************************************************)
DNS_HEADER_LEN == 12

DnsDecode(payload) ==
    IF Len(payload) < DNS_HEADER_LEN THEN DecodeMalformed("Malformed DNS Packet")
    ELSE DecodeComplete([type |-> "DnsPacket",
                         id |-> U16FromBeBytes(SubSeq(payload, 1, 2))])

(***************************************************************************)
(* The handlers.  Each returns the packet record and the store as it       *)
(* leaves them, the decode outcome and whether it removed the flow's entry.*)
(***************************************************************************)
HandlerResult(pp, store, outcome, cleared) ==
    [parsed_packet |-> pp, store |-> store, outcome |-> outcome,
     cleared |-> cleared]

\* handle_http_packet: append, decode the snapshot, react to the outcome
HandleHttpPacket(source_ip, source_port, dest_ip, dest_port, http_type, is_fin, packet, pp, store) ==
    LET key == FlowKey(source_ip, source_port, dest_ip, dest_port)
        appended_store == StoreAppend(store, key, packet)
        buf == StoreSnapshot(appended_store, key)
        d == HttpDecode(buf, http_type)
        t == HttpDecodeTerminal(buf, http_type)
    IN  IF d.outcome = "Complete" \/ d.outcome = "Malformed"
        THEN HandlerResult(SetApplicationLayerPacket(pp, d.record),
                           StoreClear(appended_store, key), d.outcome, TRUE)
        ELSE IF is_fin /\ buf # <<>>
        THEN HandlerResult(SetApplicationLayerPacket(pp, t.record),
                           StoreClear(appended_store, key),
                           IF t.outcome = "Complete" THEN "Terminal"
                           ELSE "Truncated", TRUE)
        ELSE HandlerResult(pp, appended_store, "Incomplete", FALSE)

\* handle_tls_packet: as for HTTP, but it is not told of the final segment
HandleTlsPacket(source_ip, source_port, dest_ip, dest_port, packet, pp, store) ==
    LET key == FlowKey(source_ip, source_port, dest_ip, dest_port)
        appended_store == StoreAppend(store, key, packet)
        buf == StoreSnapshot(appended_store, key)
        d == TlsDecode(buf)
    IN  IF d.outcome = "Complete" \/ d.outcome = "Malformed"
        THEN HandlerResult(SetApplicationLayerPacket(pp, d.record),
                           StoreClear(appended_store, key), d.outcome, TRUE)
        ELSE HandlerResult(pp, appended_store, "Incomplete", FALSE)

\* handle_dns_packet: one datagram, decoded on its own
HandleDnsPacket(source_ip, source_port, dest_ip, dest_port, packet, pp) ==
    LET d == DnsDecode(packet)
    IN  HandlerResult(SetApplicationLayerPacket(pp, d.record), EmptyStore,
                      d.outcome, FALSE)

\* mutant: a payload that does not parse is dropped without a record
HandleModbusPacket_Silent(source_ip, source_port, dest_ip, dest_port, packet, pp) ==
    LET r == ModbusPacketParse(packet)
    IN  IF r.kind = "Ok"
        THEN HandlerResult(
                SetApplicationLayerPacket(pp, <<SerializableModbusPacketFrom(r)>>),
                EmptyStore, "Ok", FALSE)
        ELSE HandlerResult(pp, EmptyStore, r.kind, FALSE)

HandleModbusPacket(source_ip, source_port, dest_ip, dest_port, packet, pp) ==
    LET r == ModbusPacketParse(packet)
    IN  IF r.kind = "Panic"
        THEN HandlerResult(pp, EmptyStore, "Panic", FALSE)
        ELSE IF r.kind = "Ok"
        THEN HandlerResult(
                SetApplicationLayerPacket(pp, <<SerializableModbusPacketFrom(r)>>),
                EmptyStore, "Ok", FALSE)
        ELSE HandlerResult(
                SetApplicationLayerPacket(pp,
                    <<MalformedPacket("Malformed DNS Packet")>>),
                EmptyStore, r.kind, FALSE)

(***************************************************************************)
(* handle_application_protocol                                             *)
(***************************************************************************)
\* mutant: the TLS arm written before the HTTP arm
MatchArm_TlsFirst(source_port, dest_port) ==
    IF source_port = TLS_PORT \/ dest_port = TLS_PORT THEN "tls"
    ELSE IF source_port = HTTP_PORT \/ dest_port = HTTP_PORT THEN "http"
    ELSE IF source_port = DNS_PORT \/ dest_port = DNS_PORT THEN "dns"
    ELSE IF source_port = MODBUS_PORT \/ dest_port = MODBUS_PORT THEN "modbus"
    ELSE "none"

\* mutant: the catch-all arm hands the payload to the DNS handler
MatchArm_DefaultDns(source_port, dest_port) ==
    IF source_port = HTTP_PORT \/ dest_port = HTTP_PORT THEN "http"
    ELSE IF source_port = TLS_PORT \/ dest_port = TLS_PORT THEN "tls"
    ELSE IF source_port = MODBUS_PORT \/ dest_port = MODBUS_PORT THEN "modbus"
    ELSE "dns"

\* mutant: the TLS arm matches the destination port only
MatchArm_TlsDestOnly(source_port, dest_port) ==
    IF source_port = HTTP_PORT \/ dest_port = HTTP_PORT THEN "http"
    ELSE IF dest_port = TLS_PORT THEN "tls"
    ELSE IF source_port = DNS_PORT \/ dest_port = DNS_PORT THEN "dns"
    ELSE IF source_port = MODBUS_PORT \/ dest_port = MODBUS_PORT THEN "modbus"
    ELSE "none"

\* the arm of `match (source_port, dest_port)` that is taken
MatchArm(source_port, dest_port) ==
    IF source_port = HTTP_PORT \/ dest_port = HTTP_PORT THEN "http"
    ELSE IF source_port = TLS_PORT \/ dest_port = TLS_PORT THEN "tls"
    ELSE IF source_port = DNS_PORT \/ dest_port = DNS_PORT THEN "dns"
    ELSE IF source_port = MODBUS_PORT \/ dest_port = MODBUS_PORT THEN "modbus"
    ELSE "none"

\* mutant: the type decided by the source port
HttpTypeOf_BySource(source_port, dest_port) ==
    IF source_port = HTTP_PORT THEN "Response" ELSE "Request"

\* `match dest_port` inside the HTTP arm
HttpTypeOf(source_port, dest_port) ==
    IF dest_port = HTTP_PORT THEN "Request" ELSE "Response"

DispatchResult(pp, hs, ts, invoked, http_type, outcome, cleared) ==
    [parsed_packet |-> pp, http |-> hs, tls |-> ts, invoked |-> invoked,
     http_type |-> http_type, outcome |-> outcome, cleared |-> cleared]

HandleApplicationProtocol(source_ip, source_port, dest_ip, dest_port, is_fin, packet, pp, hs, ts) ==
    LET arm == MatchArm(source_port, dest_port)
    IN  IF arm = "http"
        THEN LET http_type == HttpTypeOf(source_port, dest_port)
                 r == HandleHttpPacket(source_ip, source_port, dest_ip, dest_port,
                                       http_type, is_fin, packet, pp, hs)
             IN  DispatchResult(r.parsed_packet, r.store, ts,
                                <<"handle_http_packet">>, <<http_type>>,
                                r.outcome, r.cleared)
        ELSE IF arm = "tls"
        THEN LET r == HandleTlsPacket(source_ip, source_port, dest_ip, dest_port,
                                      packet, pp, ts)
             IN  DispatchResult(r.parsed_packet, hs, r.store,
                                <<"handle_tls_packet">>, <<>>,
                                r.outcome, r.cleared)
        ELSE IF arm = "dns"
        THEN LET r == HandleDnsPacket(source_ip, source_port, dest_ip, dest_port,
                                      packet, pp)
             IN  DispatchResult(r.parsed_packet, hs, ts,
                                <<"handle_dns_packet">>, <<>>,
                                r.outcome, r.cleared)
        ELSE IF arm = "modbus"
        THEN LET r == HandleModbusPacket(source_ip, source_port, dest_ip, dest_port,
                                         packet, pp)
             IN  DispatchResult(r.parsed_packet, hs, ts,
                                <<"handle_modbus_packet">>, <<>>,
                                r.outcome, r.cleared)
        ELSE DispatchResult(pp, hs, ts, <<>>, <<>>, "None", FALSE)

(***************************************************************************)
(* Inputs: the transport segments the capture worker is fed.               *)
(***************************************************************************)
Segment(source_ip, source_port, dest_ip, dest_port, is_fin, packet, transport) ==
    [source_ip |-> source_ip, source_port |-> source_port,
     dest_ip |-> dest_ip, dest_port |-> dest_port,
     is_fin |-> is_fin, packet |-> packet, transport |-> transport]

NoSegment == Segment("A", 0, "B", 0, FALSE, <<>>, "TcpPacket")

\* a port that no protocol of the dispatcher owns
CLIENT_PORT == 1234
OTHER_PORT == 5678

Ports == {HTTP_PORT, TLS_PORT, DNS_PORT, MODBUS_PORT, CLIENT_PORT}

\* pieces of HTTP requests: a head announcing two body bytes, body bytes, and
\* a message with no declared length
HttpRequestSegments ==
    { <<HTTP_HEAD_CONTENT_LENGTH + 2>>, <<65>>, <<65, 66>>, <<HTTP_HEAD_NO_LENGTH, 65>> }

\* pieces of HTTP responses: a chunked message, a body byte, its last chunk
HttpResponseSegments ==
    { <<HTTP_HEAD_CHUNKED, 65>>, <<66>>, <<HTTP_LAST_CHUNK>> }

\* pieces of TLS records: a handshake record cut after three bytes, with no
\* payload or with one byte of it
TlsSegments == { <<22, 3, 3>>, <<0, 0>>, <<0, 1>>, <<1>> }

\* a whole application-data record of no bytes, and a stray byte
TlsReplySegments == { <<23, 3, 3, 0, 0>>, <<1>> }

ModbusSegments ==
    { <<>>, <<1, 3, 170>>, <<1, 3, 170, 187, 204, 221>>, <<1, 0, 0, 0>>,
      <<1, 128, 0, 0>>, <<7, 127, 1, 2>> }

DnsSegments == { <<1, 2>>, <<0, 9, 1, 0, 0, 0, 0, 0, 0, 0, 0, 0>> }

TcpFrames(source_ip, source_port, dest_ip, dest_port, fins, packets) ==
    { Segment(source_ip, source_port, dest_ip, dest_port, fin, p, "TcpPacket") :
        fin \in fins, p \in packets }

\* the frames of the reassembly specification: an HTTP and a TLS conversation
\* in both directions, DNS, Modbus in both directions, and an unknown service
Frames ==
    TcpFrames("A", CLIENT_PORT, "B", HTTP_PORT, BOOLEAN, HttpRequestSegments)
    \cup TcpFrames("B", HTTP_PORT, "A", CLIENT_PORT, BOOLEAN, HttpResponseSegments)
    \cup TcpFrames("A", CLIENT_PORT, "B", TLS_PORT, BOOLEAN, TlsSegments)
    \cup TcpFrames("B", TLS_PORT, "A", CLIENT_PORT, {FALSE}, TlsReplySegments)
    \cup { Segment("A", CLIENT_PORT, "B", DNS_PORT, FALSE, p, "UdpPacket") :
            p \in DnsSegments }
    \cup TcpFrames("A", CLIENT_PORT, "B", MODBUS_PORT, {FALSE}, ModbusSegments)
    \cup TcpFrames("B", MODBUS_PORT, "A", CLIENT_PORT, {FALSE},
                   {<<1, 3, 170, 187>>, <<1, 255, 0, 0>>})
    \cup TcpFrames("A", CLIENT_PORT, "B", OTHER_PORT, {FALSE},
                   {<<65>>, <<1, 3, 170, 187>>})

\* the frames of the classification specification: every pair of ports
DispatchFrames ==
    UNION { TcpFrames("A", sp, "B", dp, BOOLEAN,
                      {<<>>, <<HTTP_HEAD_CONTENT_LENGTH>>, <<1, 3, 170, 187, 204, 221>>}) :
            sp \in Ports, dp \in Ports }

RECURSIVE SumLen(_, _)
SumLen(store, keys) ==
    IF keys = {} THEN 0
    ELSE LET k == CHOOSE x \in keys : TRUE
         IN  Len(store[k]) + SumLen(store, keys \ {k})

\* bytes held by the two stores together
Buffered == SumLen(http_store, DOMAIN http_store) + SumLen(tls_store, DOMAIN tls_store)

\* the segment travels on a port of a reassembled protocol
Reassembled(s) ==
    {s.source_port, s.dest_port} \cap {HTTP_PORT, TLS_PORT} # {}

(***************************************************************************)
(* State                                                                   *)
(***************************************************************************)
NoHandler == [invoked |-> <<>>, http_type |-> <<>>, outcome |-> "None",
              cleared |-> FALSE]

NoCall == [fn |-> "none", payload |-> <<>>, out |-> ModbusErr("none")]

FlowOf(s) == <<s.source_ip, s.source_port, s.dest_ip, s.dest_port>>

\* the history of a flow after a handler appended bytes and maybe cleared
Logged(log, flow, bytes, cleared) ==
    IF cleared THEN [f \in DOMAIN log \ {flow} |-> log[f]]
    ELSE [f \in DOMAIN log \cup {flow} |->
            IF f = flow
            THEN (IF flow \in DOMAIN log THEN log[flow] ELSE <<>>) \o bytes
            ELSE log[f]]

\* `let mut info = 0;` at the top of the body of main's loop
info == 0

Workers == 1..NumWorkers

\* mutant: plain statics, one instance reached by every thread
ThreadLocalInstance_Static(w) == 1

\* thread_local!: the instance of the statics that thread w reaches
ThreadLocalInstance(w) == w

NoWorker == [worker |-> 0, seg |-> NoSegment, outcome |-> "None"]

\* no thread has handled a segment: every instance is an empty map
WorkersIdle ==
    /\ worker_http = [i \in Workers |-> EmptyStore]
    /\ worker_tls = [i \in Workers |-> EmptyStore]
    /\ worker_last = NoWorker

Init ==
    /\ mb = NoCall
    /\ pc = "idle"
    /\ seg = NoSegment
    /\ parsed_packet = ParsedPacketNew(0)
    /\ http_store = EmptyStore
    /\ tls_store = EmptyStore
    /\ handler = NoHandler
    /\ appended = [http |-> EmptyStore, tls |-> EmptyStore]
    /\ ids = <<>>
    /\ WorkersIdle

(***************************************************************************)
(* The capture loop: a frame is received and decoded up to the transport   *)
(* layer, then handle_application_protocol is called on its payload.       *)
(***************************************************************************)
ReceiveFrame ==
    /\ pc \in {"idle", "done"}
    /\ \E f \in Frames :
        /\ Reassembled(f) => Buffered + Len(f.packet) <= MaxBuffered
        /\ seg' = f
        /\ parsed_packet' = ParseLowerLayers(info, f)
    /\ ids' = IF Len(ids) < MaxRecorded THEN Append(ids, info) ELSE ids
    /\ pc' = "dispatch"
    /\ handler' = NoHandler
    /\ UNCHANGED <<mb, http_store, tls_store, appended,
                   worker_http, worker_tls, worker_last>>

Dispatch ==
    /\ pc = "dispatch"
    /\ LET r == HandleApplicationProtocol(seg.source_ip, seg.source_port,
                    seg.dest_ip, seg.dest_port, seg.is_fin, seg.packet,
                    parsed_packet, http_store, tls_store)
       IN  /\ parsed_packet' = r.parsed_packet
           /\ http_store' = r.http
           /\ tls_store' = r.tls
           /\ handler' = [invoked |-> r.invoked, http_type |-> r.http_type,
                          outcome |-> r.outcome, cleared |-> r.cleared]
           /\ appended' =
                IF r.invoked = <<"handle_http_packet">>
                THEN [appended EXCEPT
                        !.http = Logged(@, FlowOf(seg), seg.packet, r.cleared)]
                ELSE IF r.invoked = <<"handle_tls_packet">>
                THEN [appended EXCEPT
                        !.tls = Logged(@, FlowOf(seg), seg.packet, r.cleared)]
                ELSE appended
    /\ pc' = "done"
    /\ UNCHANGED <<mb, seg, ids, worker_http, worker_tls, worker_last>>

Next == ReceiveFrame \/ Dispatch

Spec == Init /\ [][Next]_vars

(***************************************************************************)
(* Classification alone: one call of handle_application_protocol on every  *)
(* pair of ports, the stores empty.                                        *)
(***************************************************************************)
InitDispatch ==
    /\ mb = NoCall
    /\ pc = "dispatch"
    /\ seg \in DispatchFrames
    /\ parsed_packet = ParseLowerLayers(info, seg)
    /\ http_store = EmptyStore
    /\ tls_store = EmptyStore
    /\ handler = NoHandler
    /\ appended = [http |-> EmptyStore, tls |-> EmptyStore]
    /\ ids = <<>>
    /\ WorkersIdle

NextDispatch == Dispatch

SpecDispatch == InitDispatch /\ [][NextDispatch]_vars

(***************************************************************************)
(* The Modbus parsers alone: each applied once to every payload.           *)
(***************************************************************************)
InitModbus ==
    /\ \E n \in 0..MaxPayloadLen :
          \E d \in [(1..n) \ {2, 8} -> DataVals] :
             \E f1 \in (IF n >= 2 THEN FcVals ELSE {0}) :
                \E f2 \in (IF n >= 8 THEN FcVals ELSE {0}) :
                   mb = [fn |-> "none", payload |-> PayloadOf(n, d, f1, f2),
                         out |-> ModbusErr("none")]
    /\ pc = "idle"
    /\ seg = NoSegment
    /\ parsed_packet = ParsedPacketNew(0)
    /\ http_store = EmptyStore
    /\ tls_store = EmptyStore
    /\ handler = NoHandler
    /\ appended = [http |-> EmptyStore, tls |-> EmptyStore]
    /\ ids = <<>>
    /\ WorkersIdle

Called(fn, out) ==
    /\ mb.fn = "none"
    /\ mb' = [mb EXCEPT !.fn = fn, !.out = out]
    /\ UNCHANGED <<pc, seg, parsed_packet, http_store, tls_store, handler, appended,
                   ids, worker_http, worker_tls, worker_last>>

CallParse == Called("ModbusPacket::parse", ModbusPacketParse(mb.payload))

CallParseRtu == Called("parse_modbus_rtu", ParseModbusRtu(mb.payload))

CallParseTcp == Called("parse_modbus_tcp", ParseModbusTcp(mb.payload))

CallParseRtuOverTcp ==
    Called("parse_modbus_rtu_over_tcp", ParseModbusRtuOverTcp(mb.payload))

\* handle_modbus_packet on a fresh record: how it returned, and what it attached
CallHandle ==
    LET r == HandleModbusPacket("A", CLIENT_PORT, "B", MODBUS_PORT, mb.payload,
                                ParsedPacketNew(info))
    IN  Called("handle_modbus_packet",
               [kind |-> r.outcome,
                application |-> r.parsed_packet.application_layer_packet])

NextModbus ==
    CallParse \/ CallParseRtu \/ CallParseTcp \/ CallParseRtuOverTcp \/ CallHandle

SpecModbus == InitModbus /\ [][NextModbus]_vars

(***************************************************************************)
(* Several capture threads, each running handle_application_protocol       *)
(***************************************************************************)
\* the segments the threads see: one HTTP flow and one TLS flow, so that
\* every thread buffers under the same two keys
WorkerFrames ==
    TcpFrames("A", CLIENT_PORT, "B", HTTP_PORT, {FALSE},
              {<<HTTP_HEAD_CONTENT_LENGTH + 2>>, <<65>>})
    \cup TcpFrames("A", CLIENT_PORT, "B", TLS_PORT, {FALSE}, {<<22, 3, 3>>, <<0, 0>>})

\* bytes held by the two stores of instance i
WorkerBuffered(i) ==
    SumLen(worker_http[i], DOMAIN worker_http[i])
    + SumLen(worker_tls[i], DOMAIN worker_tls[i])

InitWorkers ==
    /\ mb = NoCall
    /\ pc = "idle"
    /\ seg = NoSegment
    /\ parsed_packet = ParsedPacketNew(info)
    /\ http_store = EmptyStore
    /\ tls_store = EmptyStore
    /\ handler = NoHandler
    /\ appended = [http |-> EmptyStore, tls |-> EmptyStore]
    /\ ids = <<>>
    /\ WorkersIdle

\* thread w handles one segment against the statics it reaches
WorkerHandle(w) ==
    \E f \in WorkerFrames :
        LET i == ThreadLocalInstance(w)
            r == HandleApplicationProtocol(f.source_ip, f.source_port, f.dest_ip,
                    f.dest_port, f.is_fin, f.packet, ParseLowerLayers(info, f),
                    worker_http[i], worker_tls[i])
        IN  /\ WorkerBuffered(i) + Len(f.packet) <= MaxWorkerBuffered
            /\ worker_http' = [worker_http EXCEPT ![i] = r.http]
            /\ worker_tls' = [worker_tls EXCEPT ![i] = r.tls]
            /\ worker_last' = [worker |-> w, seg |-> f, outcome |-> r.outcome]
            /\ UNCHANGED <<mb, pc, seg, parsed_packet, http_store, tls_store,
                           handler, appended, ids>>

NextWorkers == \E w \in Workers : WorkerHandle(w)

SpecWorkers == InitWorkers /\ [][NextWorkers]_vars

(***************************************************************************)
(* Properties                                                              *)
(***************************************************************************)
WellKnown == {HTTP_PORT, TLS_PORT, DNS_PORT, MODBUS_PORT}

PortsOf(s) == {s.source_port, s.dest_port}

\* the key of the segment's own direction, written out
DirectionalKey(f) == <<<<f[1], f[2]>>, <<f[3], f[4]>>>>

Application == parsed_packet.application_layer_packet

\* C1: for every pair of ports the dispatcher invokes at most one handler:
\* the HTTP handler when either port is 80; else the TLS handler when either
\* is 443; else the DNS handler when either is 53; else the Modbus handler
\* when either is 502; and no handler when neither port is well-known.
C1_FirstMatchWins ==
    pc = "done" =>
        /\ Len(handler.invoked) <= 1
        /\ HTTP_PORT \in PortsOf(seg) => handler.invoked = <<"handle_http_packet">>
        /\ (HTTP_PORT \notin PortsOf(seg) /\ TLS_PORT \in PortsOf(seg))
              => handler.invoked = <<"handle_tls_packet">>
        /\ (PortsOf(seg) \cap {HTTP_PORT, TLS_PORT} = {} /\ DNS_PORT \in PortsOf(seg))
              => handler.invoked = <<"handle_dns_packet">>
        /\ (PortsOf(seg) \cap {HTTP_PORT, TLS_PORT, DNS_PORT} = {}
              /\ MODBUS_PORT \in PortsOf(seg))
              => handler.invoked = <<"handle_modbus_packet">>
        /\ PortsOf(seg) \cap WellKnown = {} => handler.invoked = <<>>

\* a segment from port 502 to port 443 was given to the TLS handler
C1_Witness ==
    /\ pc = "done"
    /\ seg.source_port = MODBUS_PORT
    /\ seg.dest_port = TLS_PORT
    /\ handler.invoked = <<"handle_tls_packet">>

\* C2 as stated: on an HTTP port pair the request parser is selected when the
\* destination port is 80 and the response parser whenever the source port
\* is 80.
C2_Original ==
    (pc = "done" /\ handler.invoked = <<"handle_http_packet">>) =>
        /\ seg.dest_port = HTTP_PORT => handler.http_type = <<"Request">>
        /\ seg.source_port = HTTP_PORT => handler.http_type = <<"Response">>

\* C2 amended: on an HTTP port pair the request parser is selected when the
\* destination port is 80 (also when the source port is 80 too), and the
\* response parser when the source port is 80 and the destination port is not.
C2_DestinationDecides ==
    (pc = "done" /\ handler.invoked = <<"handle_http_packet">>) =>
        /\ seg.dest_port = HTTP_PORT => handler.http_type = <<"Request">>
        /\ (seg.source_port = HTTP_PORT /\ seg.dest_port # HTTP_PORT)
              => handler.http_type = <<"Response">>

\* a segment from port 80 to port 80 was parsed as a request
C2_Witness ==
    /\ pc = "done"
    /\ seg.source_port = HTTP_PORT
    /\ seg.dest_port = HTTP_PORT
    /\ handler.http_type = <<"Request">>

\* C3: a dispatch on a Modbus port pair leaves exactly one record in the
\* application-layer slot: the Modbus record of the decoded frame when
\* ModbusPacket::parse returns Ok, a Malformed record when it returns
\* InvalidLength or InvalidFunctionCode; the other three slots are unchanged.
C3_ModbusAlwaysAttaches ==
    [][ (pc = "dispatch"
            /\ MODBUS_PORT \in PortsOf(seg)
            /\ PortsOf(seg) \cap {HTTP_PORT, TLS_PORT, DNS_PORT} = {})
        => LET d == ModbusPacketParse(seg.packet)
               app == parsed_packet'.application_layer_packet
           IN  /\ Len(app) = 1
               /\ d.kind = "Ok" =>
                    app[1] = [type |-> "ModbusPacket", address |-> d.address,
                              function_code |-> d.function_code,
                              data |-> d.data, crc |-> d.crc]
               /\ d.kind \in {"InvalidLength", "InvalidFunctionCode"} =>
                    app[1].type = "MalformedPacket"
               /\ d.kind \in {"Ok", "InvalidLength", "InvalidFunctionCode"}
               /\ parsed_packet'.link_layer_packet = parsed_packet.link_layer_packet
               /\ parsed_packet'.network_layer_packet
                    = parsed_packet.network_layer_packet
               /\ parsed_packet'.transport_layer_packet
                    = parsed_packet.transport_layer_packet
               /\ parsed_packet'.id = parsed_packet.id ]_vars

\* a Modbus payload with function code 0 was attached as a Malformed record
C3_Witness ==
    /\ pc = "done"
    /\ seg.dest_port = MODBUS_PORT
    /\ seg.packet = <<1, 0, 0, 0>>
    /\ handler.outcome = "InvalidFunctionCode"
    /\ Len(Application) = 1
    /\ Application[1].type = "MalformedPacket"
    /\ Len(parsed_packet.transport_layer_packet) = 1

\* C4: when neither port is 80, 443, 53 or 502 the dispatch changes nothing:
\* the packet record and both reassembly stores are what they were.
C4_NoMatchNoEffect ==
    [][ (pc = "dispatch" /\ PortsOf(seg) \cap WellKnown = {})
        => /\ parsed_packet' = parsed_packet
           /\ http_store' = http_store
           /\ tls_store' = tls_store ]_vars

\* a segment for an unknown service was dispatched while both stores held
\* bytes, and the record has no application layer
C4_Witness ==
    /\ pc = "done"
    /\ seg.dest_port = OTHER_PORT
    /\ seg.source_port = CLIENT_PORT
    /\ http_store # EmptyStore
    /\ tls_store # EmptyStore
    /\ Application = <<>>
    /\ handler.invoked = <<>>

\* C5: parse_modbus_rtu returns InvalidLength on fewer than 4 bytes; on n >= 4
\* bytes with byte 1 in 1..127 it returns Ok with address = byte 0,
\* function_code = byte 1, data = bytes 2..n-2 (n-4 bytes) and
\* crc = Some(byte n-2 + 256 * byte n-1).
C5_RtuDecoding ==
    mb.fn = "parse_modbus_rtu" =>
        LET p == mb.payload
            n == Len(mb.payload)
        IN  /\ n < 4 => mb.out = [kind |-> "InvalidLength"]
            /\ (n >= 4 /\ p[2] \in 1..127) =>
                  /\ mb.out = [kind |-> "Ok", address |-> p[1],
                               function_code |-> p[2],
                               data |-> [i \in 1..(n - 4) |-> p[i + 2]],
                               crc |-> <<p[n - 1] + 256 * p[n]>>]
                  /\ Len(mb.out.data) = n - 4

\* a 6-byte RTU frame whose two CRC bytes differ was decoded
C5_Witness ==
    /\ mb.fn = "parse_modbus_rtu"
    /\ Len(mb.payload) = 6
    /\ mb.payload[5] = 7
    /\ mb.payload[6] = 204
    /\ mb.out.kind = "Ok"
    /\ mb.out.crc = <<7 + 256 * 204>>

\* C6: parse_modbus_tcp returns InvalidLength on fewer than 8 bytes; on n >= 8
\* bytes with byte 7 in 1..127 it returns Ok with address = byte 6,
\* function_code = byte 7, data = bytes 8..n and crc = None, whatever the
\* first six bytes are.
C6_TcpDecoding ==
    mb.fn = "parse_modbus_tcp" =>
        LET p == mb.payload
            n == Len(mb.payload)
        IN  /\ n < 8 => mb.out = [kind |-> "InvalidLength"]
            /\ (n >= 8 /\ p[8] \in 1..127) =>
                  mb.out = [kind |-> "Ok", address |-> p[7],
                            function_code |-> p[8],
                            data |-> [i \in 1..(n - 8) |-> p[i + 8]],
                            crc |-> <<>>]

\* an 8-byte Modbus TCP frame whose unit id differs from its first byte was
\* decoded to a frame with no data
C6_Witness ==
    /\ mb.fn = "parse_modbus_tcp"
    /\ Len(mb.payload) = 8
    /\ mb.payload[1] # mb.payload[7]
    /\ mb.out.kind = "Ok"
    /\ mb.out.data = <<>>
    /\ mb.out.address = mb.payload[7]

\* C7 as stated: in each variant a payload of the variant's minimum length
\* (RTU 4, TCP 8, RTU-over-TCP 8) whose function-code byte is 0 or above 127
\* is rejected with InvalidFunctionCode.
C7_Original ==
    LET p == mb.payload
        n == Len(mb.payload)
        bad(b) == b = 0 \/ b > 127
    IN  /\ (mb.fn = "parse_modbus_rtu" /\ n >= 4 /\ bad(p[2]))
              => mb.out = [kind |-> "InvalidFunctionCode"]
        /\ (mb.fn = "parse_modbus_tcp" /\ n >= 8 /\ bad(p[8]))
              => mb.out = [kind |-> "InvalidFunctionCode"]
        /\ (mb.fn = "parse_modbus_rtu_over_tcp" /\ n >= 8 /\ bad(p[8]))
              => mb.out = [kind |-> "InvalidFunctionCode"]

\* C7 amended: a function-code byte of 0 or above 127 is rejected with
\* InvalidFunctionCode by RTU on 4 bytes or more, by TCP on 8 bytes or more,
\* and by RTU-over-TCP on 10 bytes or more; an RTU-over-TCP payload of 8 or
\* 9 bytes is rejected with InvalidLength whatever its byte 7.
C7_BadFunctionCode ==
    LET p == mb.payload
        n == Len(mb.payload)
        bad(b) == b = 0 \/ b > 127
    IN  /\ (mb.fn = "parse_modbus_rtu" /\ n >= 4 /\ bad(p[2]))
              => mb.out = [kind |-> "InvalidFunctionCode"]
        /\ (mb.fn = "parse_modbus_tcp" /\ n >= 8 /\ bad(p[8]))
              => mb.out = [kind |-> "InvalidFunctionCode"]
        /\ (mb.fn = "parse_modbus_rtu_over_tcp" /\ n >= 10 /\ bad(p[8]))
              => mb.out = [kind |-> "InvalidFunctionCode"]
        /\ (mb.fn = "parse_modbus_rtu_over_tcp" /\ n \in {8, 9})
              => mb.out = [kind |-> "InvalidLength"]

\* a 10-byte RTU-over-TCP payload with function code 128 was rejected
C7_Witness ==
    /\ mb.fn = "parse_modbus_rtu_over_tcp"
    /\ Len(mb.payload) = 10
    /\ mb.payload[8] = 128
    /\ mb.out = [kind |-> "InvalidFunctionCode"]

\* C8: parse_modbus_rtu_over_tcp returns InvalidLength on fewer than 8 bytes,
\* and on 8 bytes or more the result of parse_modbus_rtu on the payload
\* without its first 6 bytes.
C8_RtuOverTcpDelegates ==
    mb.fn = "parse_modbus_rtu_over_tcp" =>
        LET p == mb.payload
            n == Len(mb.payload)
        IN  /\ n < 8 => mb.out = [kind |-> "InvalidLength"]
            /\ n >= 8 => mb.out = ParseModbusRtu([i \in 1..(n - 6) |-> p[i + 6]])

\* a 10-byte payload was decoded to the RTU frame that starts at its byte 6
C8_Witness ==
    /\ mb.fn = "parse_modbus_rtu_over_tcp"
    /\ Len(mb.payload) = 10
    /\ mb.payload[1] # mb.payload[7]
    /\ mb.payload[9] # mb.payload[10]
    /\ mb.out.kind = "Ok"
    /\ mb.out.address = mb.payload[7]
    /\ mb.out.function_code = mb.payload[8]
    /\ mb.out.data = <<>>
    /\ mb.out.crc = <<mb.payload[9] + 256 * mb.payload[10]>>

\* C9: for every flow, the buffer a store holds under the flow's own
\* (directional) key is the concatenation, in order, of the byte sequences
\* appended for that flow since its last clear, whatever was appended or
\* cleared for other flows (the reverse direction included) meanwhile; a
\* store holds no other entry.
C9_BufferIsConcatenation ==
    /\ \A f \in DOMAIN appended.http :
          /\ DirectionalKey(f) \in DOMAIN http_store
          /\ http_store[DirectionalKey(f)] = appended.http[f]
    /\ DOMAIN http_store = { DirectionalKey(f) : f \in DOMAIN appended.http }
    /\ \A f \in DOMAIN appended.tls :
          /\ DirectionalKey(f) \in DOMAIN tls_store
          /\ tls_store[DirectionalKey(f)] = appended.tls[f]
    /\ DOMAIN tls_store = { DirectionalKey(f) : f \in DOMAIN appended.tls }

\* the request flow holds two appended segments while the reply flow, last
\* appended to, holds two others
C9_Witness ==
    /\ pc = "done"
    /\ <<<<"A", CLIENT_PORT>>, <<"B", HTTP_PORT>>>> \in DOMAIN http_store
    /\ http_store[<<<<"A", CLIENT_PORT>>, <<"B", HTTP_PORT>>>>]
          = <<HTTP_HEAD_CONTENT_LENGTH + 2, 65>>
    /\ <<<<"B", HTTP_PORT>>, <<"A", CLIENT_PORT>>>> \in DOMAIN http_store
    /\ http_store[<<<<"B", HTTP_PORT>>, <<"A", CLIENT_PORT>>>>]
          = <<HTTP_HEAD_CHUNKED, 65, 66>>
    /\ seg.source_port = HTTP_PORT
    /\ seg.packet = <<66>>

\* the bytes a store holds for a flow, none when it has no entry
BufferOf(store, key) == IF key \in DOMAIN store THEN store[key] ELSE <<>>

\* C10: on an HTTP or a TLS flow, a segment that is not the flow's last and
\* after which the message is still incomplete attaches no application-layer
\* record and leaves the flow's buffer holding all bytes so far; a segment
\* that completes the message (for HTTP also the final segment of a message
\* that ends with the stream) attaches the decoded record and removes the
\* flow's entry, so that the next segment starts from an empty buffer.
C10_ReassemblyAcrossSegments ==
    [][ pc = "dispatch" =>
        LET key == DirectionalKey(FlowOf(seg))
            app == parsed_packet'.application_layer_packet
            http_type == IF seg.dest_port = HTTP_PORT THEN "Request" ELSE "Response"
            http_buf == BufferOf(http_store, key) \o seg.packet
            tls_buf == BufferOf(tls_store, key) \o seg.packet
            h == HttpDecode(http_buf, http_type)
            ht == HttpDecodeTerminal(http_buf, http_type)
            t == TlsDecode(tls_buf)
        IN  /\ HTTP_PORT \in PortsOf(seg) =>
                /\ (h.outcome = "Incomplete" /\ ~seg.is_fin) =>
                      /\ app = <<>>
                      /\ key \in DOMAIN http_store'
                      /\ http_store'[key] = http_buf
                /\ h.outcome = "Complete" =>
                      /\ app = h.record
                      /\ key \notin DOMAIN http_store'
                /\ (h.outcome = "Incomplete" /\ seg.is_fin /\ http_buf # <<>>
                        /\ ht.outcome = "Complete") =>
                      /\ app = ht.record
                      /\ key \notin DOMAIN http_store'
            /\ (TLS_PORT \in PortsOf(seg) /\ HTTP_PORT \notin PortsOf(seg)) =>
                /\ t.outcome = "Incomplete" =>
                      /\ app = <<>>
                      /\ key \in DOMAIN tls_store'
                      /\ tls_store'[key] = tls_buf
                /\ t.outcome = "Complete" =>
                      /\ app = t.record
                      /\ key \notin DOMAIN tls_store' ]_vars

\* the third segment of a request (head, one body byte, one body byte)
\* completed it: the record carries both body bytes and the entry is gone
C10_Witness ==
    /\ pc = "done"
    /\ seg.dest_port = HTTP_PORT
    /\ seg.packet = <<65>>
    /\ handler.outcome = "Complete"
    /\ Application = <<[type |-> "HttpRequestPacket", body |-> <<65, 65>>]>>
    /\ <<<<"A", CLIENT_PORT>>, <<"B", HTTP_PORT>>>> \notin DOMAIN http_store

\* C11: on an HTTP or a TLS flow, a final segment (is_fin) after which the
\* flow's buffer is not empty and the message is still incomplete ends with
\* the flow's entry removed and with either the best-effort record or
\* Malformed("truncated") attached.
C11_FinalSegmentClears ==
    [][ (pc = "dispatch" /\ seg.is_fin) =>
        LET key == DirectionalKey(FlowOf(seg))
            app == parsed_packet'.application_layer_packet
            http_type == IF seg.dest_port = HTTP_PORT THEN "Request" ELSE "Response"
            http_buf == BufferOf(http_store, key) \o seg.packet
            tls_buf == BufferOf(tls_store, key) \o seg.packet
        IN  /\ (HTTP_PORT \in PortsOf(seg) /\ http_buf # <<>>
                  /\ HttpDecode(http_buf, http_type).outcome = "Incomplete") =>
                /\ key \notin DOMAIN http_store'
                /\ Len(app) = 1
                /\ \/ app[1].type \in {"HttpRequestPacket", "HttpResponsePacket"}
                   \/ app = <<MalformedPacket("truncated")>>
            /\ (TLS_PORT \in PortsOf(seg) /\ HTTP_PORT \notin PortsOf(seg)
                  /\ tls_buf # <<>> /\ TlsDecode(tls_buf).outcome = "Incomplete") =>
                /\ key \notin DOMAIN tls_store'
                /\ Len(app) = 1
                /\ \/ app[1].type = "TlsPacket"
                   \/ app = <<MalformedPacket("truncated")>> ]_vars

\* C12: no two ParsedPacket records created by the capture loop carry the
\* same id.
C12_UniqueIds ==
    \A i, j \in DOMAIN ids : i # j => ids[i] # ids[j]

\* the buffer that thread w observes for a flow key in one of its two stores
ObservedBy(w, stores, key) == BufferOf(stores[ThreadLocalInstance(w)], key)

WorkerKeys == { DirectionalKey(FlowOf(f)) : f \in WorkerFrames }

\* C13: a segment handled by one thread (an append or a clear in its stores)
\* leaves the buffer that every other thread observes, for every flow key and
\* in both stores, as it was.
C13_StoresPerWorker ==
    [][ \A v \in Workers : \A key \in WorkerKeys :
            v # worker_last'.worker =>
                /\ ObservedBy(v, worker_http', key) = ObservedBy(v, worker_http, key)
                /\ ObservedBy(v, worker_tls', key) = ObservedBy(v, worker_tls, key) ]_vars

\* C13 witness: after interleaved segments of the same HTTP flow, thread 1
\* holds the head alone and thread 2, the last to run, holds head and one
\* body byte under the same key; thread 1 has also cleared its TLS buffer
C13_Witness ==
    LET key == DirectionalKey(<<"A", CLIENT_PORT, "B", HTTP_PORT>>)
    IN  /\ worker_last.worker = 2
        /\ ObservedBy(1, worker_http, key) = <<HTTP_HEAD_CONTENT_LENGTH + 2>>
        /\ ObservedBy(2, worker_http, key) = <<HTTP_HEAD_CONTENT_LENGTH + 2, 65>>
        /\ worker_tls[1] = EmptyStore
        /\ worker_tls[2] # EmptyStore

ModbusErrorKinds == {"InvalidLength", "InvalidFunctionCode", "InvalidCRC"}

\* C14: whatever the payload, each of ModbusPacket::parse, parse_modbus_rtu,
\* parse_modbus_tcp, parse_modbus_rtu_over_tcp and handle_modbus_packet
\* returns Ok or an error kind, never a fault; handle_modbus_packet returns
\* with one record attached.
C14_ModbusNeverFaults ==
    mb.fn # "none" =>
        /\ mb.out.kind \in {"Ok"} \cup ModbusErrorKinds
        /\ mb.fn = "handle_modbus_packet" => Len(mb.out.application) = 1

\* C14 witness: the handler has returned from the empty payload with the
\* length error turned into a Malformed record
C14_Witness ==
    /\ mb.fn = "handle_modbus_packet"
    /\ mb.payload = <<>>
    /\ mb.out.kind = "InvalidLength"
    /\ mb.out.application = <<MalformedPacket("Malformed DNS Packet")>>

\* what handle_modbus_packet attaches for a parser result
AttachedFor(r) ==
    IF r.kind = "Ok" THEN <<SerializableModbusPacketFrom(r)>>
    ELSE <<MalformedPacket("Malformed DNS Packet")>>

\* C15: the result handle_modbus_packet acts on, ModbusPacket::parse, equals
\* parse_modbus_rtu on the same payload, and the record the handler attaches
\* is the one that follows from parse_modbus_rtu, also where parse_modbus_tcp
\* or parse_modbus_rtu_over_tcp would decode the payload differently.
C15_DispatchUsesRtuParser ==
    /\ mb.fn = "ModbusPacket::parse" => mb.out = ParseModbusRtu(mb.payload)
    /\ mb.fn = "handle_modbus_packet" =>
            /\ mb.out.kind = ParseModbusRtu(mb.payload).kind
            /\ mb.out.application = AttachedFor(ParseModbusRtu(mb.payload))

\* C15 witness: the handler ran on a payload that all three routines accept
\* and decode differently, and attached the RTU reading of it: the address
\* is byte 0 and a CRC is present
C15_Witness ==
    /\ mb.fn = "handle_modbus_packet"
    /\ Len(mb.payload) = MaxPayloadLen
    /\ ParseModbusTcp(mb.payload).kind = "Ok"
    /\ ParseModbusRtuOverTcp(mb.payload).kind = "Ok"
    /\ mb.out.kind = "Ok"
    /\ mb.out.application # AttachedFor(ParseModbusTcp(mb.payload))
    /\ mb.out.application # AttachedFor(ParseModbusRtuOverTcp(mb.payload))
    /\ mb.out.application[1].address = mb.payload[1]
    /\ mb.out.application[1].crc # <<>>

=============================================================================
